---- MODULE Spec2Model ----
(***************************************************************************)
(* Model of the Excel upload endpoint (api/upload-quiz): the spreadsheet   *)
(* rows to quiz document conversion (convertExcelToQuiz), the filename     *)
(* derivation at the head of saveQuizToRepo, and the request handler with  *)
(* the publish sequence of saveQuizToRepo against the remote store.        *)
(*                                                                         *)
(* A JavaScript string is a sequence of one-character strings.  A cell of  *)
(* the row matrix returned by XLSX.utils.sheet_to_json(ws, {header: 1}) is *)
(* a string, a number or a hole (undefined); the matrix itself is dense,   *)
(* a blank sheet row being the empty array.  Row and loop indices are the  *)
(* 0-based indices of the code; data[i] of the code is data[i + 1] here.   *)
(***************************************************************************)
EXTENDS Integers, Sequences, FiniteSets, TLC

VARIABLES
    data,        \* convertExcelToQuiz: the row matrix
    title,       \* convertExcelToQuiz: the quiz title
    pc,          \* position inside convertExcelToQuiz
    startIndex,  \* index of the first data row
    i,           \* loop index of the row loop
    questions,   \* the questions emitted so far
    sourceRows,  \* history: sourceRows[k] is the row index questions[k] came from
    quiz,        \* the returned quiz document
    quizTitle,   \* saveQuizToRepo: the title the filename is derived from
    filename,    \* saveQuizToRepo: the derived filename
    fpc,         \* position inside the filename derivation
    env,         \* process.env: which of token, owner and repo are set
    head,        \* remote store: the commit the branch ref points to
    slots,       \* the state of each running invocation of handler
    served       \* the number of requests received so far

convVars == <<data, title, pc, startIndex, i, questions, sourceRows, quiz>>
fileVars == <<quizTitle, filename, fpc>>
upVars == <<env, head, slots, served>>
vars == <<data, title, pc, startIndex, i, questions, sourceRows, quiz,
          quizTitle, filename, fpc, env, head, slots, served>>

-----------------------------------------------------------------------------
(* Bounds *)

MaxRows == 3        \* rows of the row matrix
MaxDay == 1         \* calendar days (UTC) the clock can show
MaxTitleLen == 3    \* characters of a title in the filename derivation
MaxRequests == 2    \* requests received in one behaviour

-----------------------------------------------------------------------------
(* JavaScript strings and cells *)

UpperCase == <<"A","B","C","D","E","F","G","H","I","J","K","L","M",
               "N","O","P","Q","R","S","T","U","V","W","X","Y","Z">>
LowerCase == <<"a","b","c","d","e","f","g","h","i","j","k","l","m",
               "n","o","p","q","r","s","t","u","v","w","x","y","z">>
Digits == <<"0","1","2","3","4","5","6","7","8","9">>

Range(s) == {s[k] : k \in 1..Len(s)}

\* the characters \s matches and String.prototype.trim removes
IsWhiteSpace(c) == c \in {" ", "\t", "\n"}

IsUpper(c) == c \in Range(UpperCase)
IsLower(c) == c \in Range(LowerCase)
IsDigit(c) == c \in Range(Digits)

\* String.prototype.toLowerCase, one character
LowerChar(c) ==
    IF IsUpper(c) THEN LowerCase[CHOOSE k \in 1..26 : UpperCase[k] = c]
    ELSE IF c = "É" THEN "é" ELSE c

ToLowerCase(s) == [k \in 1..Len(s) |-> LowerChar(s[k])]

RECURSIVE TrimStart(_)
TrimStart(s) ==
    IF s # <<>> /\ IsWhiteSpace(Head(s)) THEN TrimStart(Tail(s)) ELSE s

RECURSIVE TrimEnd(_)
TrimEnd(s) ==
    IF s # <<>> /\ IsWhiteSpace(s[Len(s)])
    THEN TrimEnd(SubSeq(s, 1, Len(s) - 1)) ELSE s

\* String.prototype.trim
Trim(s) == TrimEnd(TrimStart(s))

\* String.prototype.split(','): "" splits into [""]
RECURSIVE Split(_)
Split(s) ==
    IF \A k \in 1..Len(s) : s[k] # ","
    THEN <<s>>
    ELSE LET c == CHOOSE k \in 1..Len(s) :
                      s[k] = "," /\ \A j \in 1..(k - 1) : s[j] # ","
         IN  <<SubSeq(s, 1, c - 1)>> \o Split(SubSeq(s, c + 1, Len(s)))

\* Number.prototype.toString for integers
RECURSIVE NatToString(_)
NatToString(n) ==
    IF n < 10 THEN <<Digits[n + 1]>>
    ELSE NatToString(n \div 10) \o <<Digits[(n % 10) + 1]>>

NumToString(n) == IF n < 0 THEN <<"-">> \o NatToString(-n) ELSE NatToString(n)

Text(s) == [kind |-> "text", s |-> s, n |-> 0]
Num(n) == [kind |-> "num", s |-> <<>>, n |-> n]
Missing == [kind |-> "missing", s |-> <<>>, n |-> 0]

\* row[k] of the code, k 0-based: a hole or an index past the end is undefined
CellAt(row, k) == IF k + 1 <= Len(row) THEN row[k + 1] ELSE Missing

\* JavaScript truthiness of a cell: undefined, "" and 0 are falsy
Truthy(cell) ==
    CASE cell.kind = "text" -> cell.s # <<>>
      [] cell.kind = "num" -> cell.n # 0
      [] OTHER -> FALSE

\* cell.toString()
CellToString(cell) == IF cell.kind = "num" THEN NumToString(cell.n) ELSE cell.s

\* row[k]?.toString().trim(): undefined for a hole
OptTrimmed(cell) ==
    IF cell.kind = "missing" THEN [defined |-> FALSE, s |-> <<>>]
    ELSE [defined |-> TRUE, s |-> Trim(CellToString(cell))]

\* !x for x = row[k]?.toString().trim(): undefined and "" are falsy
IsFalsyString(o) == ~o.defined \/ o.s = <<>>

-----------------------------------------------------------------------------
(* convertExcelToQuiz *)

HeaderWords == { <<"q","u","e","s","t","i","o","n">>, <<"a","n","s","w","e","r">>,
                 <<"q">>, <<"a">> }

StartsWith(s, w) == Len(s) >= Len(w) /\ SubSeq(s, 1, Len(w)) = w

\* /^(question|answer|q|a)/ without the i flag
HeaderRegexTestCaseSensitive(s) == \E w \in HeaderWords : StartsWith(s, w)

\* /^(question|answer|q|a)/i.test(s)
HeaderRegexTest(s) == \E w \in HeaderWords : StartsWith(ToLowerCase(s), w)

\* only the first cell of the row is tested
HasHeadersFirstCellOnly(firstRow) ==
    /\ Len(firstRow) > 0
    /\ firstRow[1].kind = "text"
    /\ HeaderRegexTest(Trim(firstRow[1].s))

\* firstRow.some(cell => typeof cell === 'string' && /.../i.test(cell.trim()))
HasHeaders(firstRow) ==
    \E k \in 1..Len(firstRow) :
        /\ firstRow[k].kind = "text"
        /\ HeaderRegexTest(Trim(firstRow[k].s))

\* !row || row.length === 0 || (!row[0] && !row[1])
IsEmptyRow(row) ==
    \/ Len(row) = 0
    \/ ~Truthy(CellAt(row, 0)) /\ ~Truthy(CellAt(row, 1))

\* the row is skipped only when both strings are missing
IsIncompleteBothMissing(questionText, answerText) ==
    IsFalsyString(questionText) /\ IsFalsyString(answerText)

\* !questionText || !answerText
IsIncomplete(questionText, answerText) ==
    IsFalsyString(questionText) \/ IsFalsyString(answerText)

\* the number is taken from the source row index
QuestionNumberFromRow(qs, idx) == idx + 1

\* question_number: questions.length + 1
QuestionNumber(qs, idx) == Len(qs) + 1

\* the empty segments are kept
AlternativesUnfiltered(str) ==
    LET segs == Split(str)
    IN  [k \in 1..Len(segs) |-> Trim(segs[k])]

\* str.split(',').map(alt => alt.trim()).filter(alt => alt.length > 0)
Alternatives(str) ==
    LET segs == Split(str)
        trimmed == [k \in 1..Len(segs) |-> Trim(segs[k])]
    IN  SelectSeq(trimmed, LAMBDA alt : Len(alt) > 0)

\* the question object of one row; accept is a field only when attached
MakeQuestion(row, qs, idx) ==
    LET base == [question_number |-> QuestionNumber(qs, idx),
                 question_text |-> OptTrimmed(CellAt(row, 0)).s,
                 answer |-> OptTrimmed(CellAt(row, 1)).s]
        alternatives == Alternatives(CellToString(CellAt(row, 2)))
    IN  IF Truthy(CellAt(row, 2)) /\ Len(alternatives) > 0
        THEN [question_number |-> base.question_number,
              question_text |-> base.question_text,
              answer |-> base.answer,
              accept |-> alternatives]
        ELSE base

\* the row is passed over by one of the two continue statements
RowSkipped(row) ==
    \/ IsEmptyRow(row)
    \/ IsIncomplete(OptTrimmed(CellAt(row, 0)), OptTrimmed(CellAt(row, 1)))

\* new Date().toISOString().split('T')[0], a date being its day ordinal
SourceTag(day) == <<"excel_upload_", day>>

MakeQuiz(t, qs, sourceDay, dateDay) ==
    [metadata |-> [title |-> t,
                   source |-> SourceTag(sourceDay),
                   date |-> dateDay,
                   rounds |-> 1],
     rounds |-> << [round_number |-> 1,
                    round_name |-> t,
                    players |-> << [player_number |-> 1,
                                    questions |-> qs] >>] >>]

NoQuiz == <<>>

\* lines 95-106: header detection on row 0
DetectHeader ==
    /\ pc = "header"
    /\ startIndex' = IF Len(data) > 0 /\ HasHeaders(data[1]) THEN 1 ELSE 0
    /\ i' = startIndex'
    /\ pc' = "loop"
    /\ UNCHANGED <<data, title, questions, sourceRows, quiz, fileVars, upVars>>

\* lines 110-145: one iteration of the row loop
ConvertRow ==
    /\ pc = "loop"
    /\ i < Len(data)
    /\ LET row == data[i + 1]
       IN  IF RowSkipped(row)
           THEN UNCHANGED <<questions, sourceRows>>
           ELSE /\ questions' = Append(questions, MakeQuestion(row, questions, i))
                /\ sourceRows' = Append(sourceRows, i)
    /\ i' = i + 1
    /\ UNCHANGED <<data, title, pc, startIndex, quiz, fileVars, upVars>>

\* lines 147-169: the document is built once the loop has ended; the clock
\* is read twice and may have moved on to the next day in between
BuildQuiz ==
    /\ pc = "loop"
    /\ i >= Len(data)
    /\ \E sourceDay \in 0..MaxDay, dateDay \in 0..MaxDay :
          /\ sourceDay <= dateDay
          /\ quiz' = MakeQuiz(title, questions, sourceDay, dateDay)
    /\ pc' = "done"
    /\ UNCHANGED <<data, title, startIndex, i, questions, sourceRows, fileVars, upVars>>

-----------------------------------------------------------------------------
(* saveQuizToRepo: the filename derived from the quiz title, lines 190-194 *)

\* [a-z0-9\s-] with the i flag; without the u flag a character outside
\* ASCII never matches an ASCII letter
IsFilenameChar(c) ==
    IsLower(c) \/ IsUpper(c) \/ IsDigit(c) \/ IsWhiteSpace(c) \/ c = "-"

\* .replace(/[^a-z0-9\s-]/gi, '')
StripSpecial(s) == SelectSeq(s, IsFilenameChar)

\* .replace(/\s+/g, '-'): every maximal run of whitespace becomes one hyphen
RECURSIVE HyphenateSpaces(_)
HyphenateSpaces(s) ==
    IF s = <<>> THEN <<>>
    ELSE IF IsWhiteSpace(Head(s))
         THEN <<"-">> \o HyphenateSpaces(TrimStart(s))
         ELSE <<Head(s)>> \o HyphenateSpaces(Tail(s))

\* the result is not lowercased
DeriveFilenameNoLowerCase(t) == HyphenateSpaces(StripSpecial(t))

\* hyphens are put in before the other characters are stripped
DeriveFilenameHyphenFirst(t) == ToLowerCase(StripSpecial(HyphenateSpaces(t)))

DeriveFilename(t) == ToLowerCase(HyphenateSpaces(StripSpecial(t)))

\* the other case of a letter; any other character is left alone
FlipCase(c) ==
    IF IsUpper(c) THEN LowerChar(c)
    ELSE IF IsLower(c) THEN UpperCase[CHOOSE k \in 1..26 : LowerCase[k] = c]
    ELSE c

\* the characters of the title alphabet that /[^a-z0-9\s-]/gi strips
StrippedChars == {"é", "!"}

\* the titles that differ from t in the case of one letter, or by one
\* character outside [a-z0-9\s-] more or less
Variants(t) ==
    { [t EXCEPT ![k] = FlipCase(t[k])] : k \in 1..Len(t) }
    \cup { SubSeq(t, 1, k - 1) \o SubSeq(t, k + 1, Len(t)) :
              k \in {j \in 1..Len(t) : ~IsFilenameChar(t[j])} }
    \cup { SubSeq(t, 1, k) \o <<c>> \o SubSeq(t, k + 1, Len(t)) :
              k \in (IF Len(t) < MaxTitleLen THEN 0..Len(t) ELSE {}),
              c \in StrippedChars }

\* the filename is derived from the title of the quiz being published
Derive ==
    /\ fpc \in {"title", "variant"}
    /\ filename' = DeriveFilename(quizTitle)
    /\ fpc' = "derived"
    /\ UNCHANGED <<quizTitle, convVars, upVars>>

\* a later publish whose title is a filename derived before
PublishAgain ==
    /\ fpc = "derived"
    /\ quizTitle' = filename
    /\ fpc' = "title"
    /\ UNCHANGED <<filename, convVars, upVars>>

\* a later publish whose title is a variant of the title published before
PublishVariant ==
    /\ fpc = "derived"
    /\ quizTitle' \in Variants(quizTitle) \ {quizTitle}
    /\ fpc' = "variant"
    /\ UNCHANGED <<filename, convVars, upVars>>

-----------------------------------------------------------------------------
(* Inputs *)

sQ1 == <<"Q","1">>
sA1 == <<"A","1">>
sQ2 == <<"Q","2">>
sA2 == <<"A","2">>
sXY == <<"x",","," ","y">>
sQuestion == <<"Q","u","e","s","t","i","o","n">>
sAnswer == <<"A","n","s","w","e","r">>
sDemo == <<"D","e","m","o">>
sUntitled == <<"U","n","t","i","t","l","e","d"," ","Q","u","i","z">>

ExampleRows == << <<Text(sQ1), Text(sA1)>>,
                  <<Text(<<>>), Text(<<>>)>>,
                  <<Text(sQ2), Text(sA2), Text(sXY)>> >>

RowPool ==
    Range(ExampleRows) \cup
    { <<>>,
      <<Text(sQuestion), Text(sAnswer)>>,
      <<Num(0), Num(0)>>,
      <<Text(<<"2","+","2">>), Num(4), Num(0)>>,
      <<Text(<<" ","a","p","p","l","e">>), Text(<<"p","i","e">>)>>,
      <<Text(<<"x">>), Missing, Text(<<"y">>)>>,
      <<Missing, Text(<<"y">>)>>,
      <<Text(<<" ","\t">>), Text(<<"y">>)>>,
      <<Num(7), Text(<<"x"," ">>), Text(<<" ",",",","," ">>)>>,
      <<Text(<<"x">>), Num(0), Num(12)>>,
      <<Text(<<"x"," ","y">>), Text(<<"z">>), Text(<<"a"," ",",","b"," ","c",",">>)>> }

Matrices == UNION { [1..n -> RowPool] : n \in 0..MaxRows }

Titles == {sDemo, sUntitled}

TitleChars == {"C", "a", "é", " ", "\t", "!", "-", "1"}

sCafeAccent == <<"C","a","f","é"," ","Q","u","i","z","!">>
sCafePlain == <<"C","a","f","e"," ","Q","u","i","z">>

FileTitles ==
    UNION { [1..n -> TitleChars] : n \in 0..MaxTitleLen }
    \cup {sCafeAccent, sCafePlain}

-----------------------------------------------------------------------------
(* handler and saveQuizToRepo: requests, responses and the remote store *)

\* the invocations of handler that can be running at the same time
Handlers == {1, 2}

Null == <<>>

\* convertExcelToQuiz as a function: the row loop from index idx on
RECURSIVE ConvertRows(_, _, _)
ConvertRows(rows, idx, qs) ==
    IF idx >= Len(rows) THEN qs
    ELSE IF RowSkipped(rows[idx + 1]) THEN ConvertRows(rows, idx + 1, qs)
    ELSE ConvertRows(rows, idx + 1,
                     Append(qs, MakeQuestion(rows[idx + 1], qs, idx)))

ConvertExcelToQuiz(rows, t, sourceDay, dateDay) ==
    LET start == IF Len(rows) > 0 /\ HasHeaders(rows[1]) THEN 1 ELSE 0
    IN  MakeQuiz(t, ConvertRows(rows, start, <<>>), sourceDay, dateDay)

EndsWith(s, w) ==
    Len(s) >= Len(w) /\ SubSeq(s, Len(s) - Len(w) + 1, Len(s)) = w

\* name.replace(/\.(xlsx?|csv)$/i, '')
StripExtension(name) ==
    LET low == ToLowerCase(name)
        cut == IF EndsWith(low, <<".","x","l","s","x">>) THEN 5
               ELSE IF EndsWith(low, <<".","x","l","s">>) THEN 4
               ELSE IF EndsWith(low, <<".","c","s","v">>) THEN 4
               ELSE 0
    IN  SubSeq(name, 1, Len(name) - cut)

\* fields.title?.[0] || originalFilename?.replace(...) || 'Untitled Quiz',
\* an absent field or name being the empty string here
QuizTitle(fieldTitle, originalFilename) ==
    IF fieldTitle # <<>> THEN fieldTitle
    ELSE IF StripExtension(originalFilename) # <<>>
         THEN StripExtension(originalFilename)
         ELSE sUntitled

\* every method is let through
MethodAllowedAny(method) == TRUE

\* req.method !== 'POST' answers 405
MethodAllowed(method) == method = "POST"

\* publishing is attempted without a token
TokenConfiguredAlways(e) == TRUE

\* if (process.env.GITHUB_TOKEN)
TokenConfigured(e) == e.token

\* the configuration error is raised only when both are missing
RepoConfiguredEither(e) == e.owner \/ e.repo

\* !owner || !repo throws the configuration error
RepoConfigured(e) == e.owner /\ e.repo

MethodNotAllowed == [status |-> 405, body |-> [error |-> "Method not allowed"]]

NoFileUploaded == [status |-> 400, body |-> [error |-> "No file uploaded"]]

\* the outer catch answers 200 with the error
ProcessingErrorAs200(msg) ==
    [status |-> 200,
     body |-> [error |-> "Failed to process Excel file", message |-> msg]]

\* the outer catch, lines 78-84
ProcessingError(msg) ==
    [status |-> 500,
     body |-> [error |-> "Failed to process Excel file", message |-> msg]]

\* lines 68-76
UploadResponse(q, saved, path) ==
    [status |-> 200,
     body |-> [success |-> TRUE,
               quiz |-> q,
               saved |-> saved,
               quizPath |-> path,
               message |-> IF saved
                           THEN "Quiz saved to repository successfully"
                           ELSE "Quiz parsed successfully (download to save manually)"]]

\* an error of saveQuizToRepo fails the whole request
SaveErrorResponseFails(q) == ProcessingError("save failed")

\* the inner catch, lines 61-64: saved and quizFilePath keep false and null
SaveErrorResponse(q) == UploadResponse(q, FALSE, Null)

IndexPath == <<"public/data/quiz-index.json">>
QuizPath(f) == <<"public/data/quizzes/", f, ".json">>
QuizFile(f) == <<"/data/quizzes/", f, ".json">>

\* the catch starts from an index that still lists a quiz
EmptyIndexStale ==
    [quizzes |-> << [name |-> <<"s">>, file |-> <<"s">>, description |-> <<"s">>] >>]

\* line 229: quizIndex = { quizzes: [] }
EmptyIndex == [quizzes |-> <<>>]

\* players.reduce((roundTotal, player) => roundTotal + player.questions.length, 0)
RECURSIVE PlayersTotal(_)
PlayersTotal(players) ==
    IF players = <<>> THEN 0
    ELSE Len(Head(players).questions) + PlayersTotal(Tail(players))

\* lines 233-237: rounds.reduce((total, round) => total + ..., 0)
RECURSIVE RoundsTotal(_)
RoundsTotal(rounds) ==
    IF rounds = <<>> THEN 0
    ELSE PlayersTotal(Head(rounds).players) + RoundsTotal(Tail(rounds))

\* the rounds are counted instead of their questions
TotalQuestionsCountsRounds(q) == Len(q.rounds)

TotalQuestions(q) == RoundsTotal(q.rounds)

\* lines 241-245
NewEntry(t, f, q) ==
    [name |-> t,
     file |-> QuizFile(f),
     description |-> <<"1 round, ", TotalQuestions(q), " questions">>]

\* quizIndex.quizzes.findIndex(q => q.file === file), 0 for -1
FindIndex(list, file) ==
    IF \E k \in 1..Len(list) : list[k].file = file
    THEN CHOOSE k \in 1..Len(list) :
             list[k].file = file /\ \A j \in 1..(k - 1) : list[j].file # file
    ELSE 0

\* the entry is always pushed
UpsertAlwaysPush(index, entry) ==
    [quizzes |-> Append(index.quizzes, entry)]

\* lines 240-251
Upsert(index, entry) ==
    LET existingIndex == FindIndex(index.quizzes, entry.file)
    IN  IF existingIndex > 0
        THEN [quizzes |-> [index.quizzes EXCEPT ![existingIndex] = entry]]
        ELSE [quizzes |-> Append(index.quizzes, entry)]

\* git.createTree without base_tree: a tree of the two paths alone
CreateTreeWithoutBase(base, p1, b1, p2, b2) ==
    [p \in {p1, p2} |-> IF p = p2 THEN b2 ELSE b1]

\* git.createTree with base_tree: the base tree with the two paths set
CreateTree(base, p1, b1, p2, b2) ==
    [p \in DOMAIN base \cup {p1, p2} |->
        IF p = p2 THEN b2 ELSE IF p = p1 THEN b1 ELSE base[p]]

\* git.createCommit: a new commit object
CreateCommit(tree, parent, t, num) ==
    [tree |-> tree, parents |-> <<parent>>,
     message |-> <<"Add quiz: ", t>>, id |-> num]

\* the commit is created on the branch
RefAfterCreateCommitMoved(ref, commit) == commit

\* git.createCommit leaves the branch ref alone
RefAfterCreateCommit(ref, commit) == ref

\* the tree is built on the tree of the branch head of the moment
BaseTreeOfHead(slot, ref) == ref.tree

\* base_tree: currentTreeSha, the tree resolved from the ref at the start
BaseTree(slot, ref) == slot.currentTreeSha

\* the tree is created once one of the blobs is there
BlobsReadyOne(pending) == Cardinality(pending) <= 1

\* await Promise.all([...]): both blobs have been created
BlobsReady(pending) == pending = {}

IdleSlot ==
    [pc |-> "idle", req |-> Null, num |-> 0, quizData |-> Null,
     title |-> Null, fname |-> Null,
     currentCommitSha |-> Null, currentTreeSha |-> Null,
     fetched |-> Null, quizIndex |-> Null, pending |-> {},
     newTree |-> Null, newCommit |-> Null,
     log |-> <<>>, okCalls |-> {}, responses |-> <<>>]

\* res.status(..).json(..): the invocation ends with the response
Respond(slot, response) ==
    [slot EXCEPT !.pc = "done", !.responses = Append(@, response)]

sDemoBang == <<"d","e","m","o","!">>
sDemoFile == <<"d","e","m","o">>
sOther == <<"o","t","h","e","r">>
sOld == <<"O","l","d">>

NoRequest ==
    [method |-> "GET", parse |-> "ok", file |-> FALSE, fieldTitle |-> <<>>,
     originalFilename |-> <<>>, readable |-> FALSE, data |-> <<>>]

UploadRequests ==
    { NoRequest,
      [NoRequest EXCEPT !.method = "POST", !.parse = "error"],
      [NoRequest EXCEPT !.method = "POST"],
      [NoRequest EXCEPT !.method = "POST", !.file = TRUE,
                        !.originalFilename = <<"x",".","x","l","s","x">>],
      [NoRequest EXCEPT !.method = "POST", !.file = TRUE, !.readable = TRUE,
                        !.fieldTitle = sDemo,
                        !.originalFilename = <<"x",".","x","l","s","x">>,
                        !.data = ExampleRows],
      [NoRequest EXCEPT !.method = "POST", !.file = TRUE, !.readable = TRUE,
                        !.fieldTitle = sDemoBang,
                        !.originalFilename = <<"x",".","c","s","v">>],
      [NoRequest EXCEPT !.method = "POST", !.file = TRUE, !.readable = TRUE,
                        !.originalFilename = <<"Q","1",".","X","L","S">>,
                        !.data = ExampleRows] }

OldQuiz == MakeQuiz(sOld, <<>>, 0, 0)

OldIndex ==
    << NewEntry(sOld, sDemoFile, OldQuiz), NewEntry(sOther, sOther, OldQuiz) >>

\* the trees the branch can start with: the index lists only files of the tree
InitialTrees ==
    { <<>>,
      (IndexPath :> [quizzes |-> OldIndex])
          @@ (QuizPath(sDemoFile) :> OldQuiz) @@ (QuizPath(sOther) :> OldQuiz) }

InitialCommit(tree) ==
    [tree |-> tree, parents |-> <<>>, message |-> <<"init">>, id |-> 0]

\* the call is logged when it is issued
Issue(slot, call, nextPc) ==
    [slot EXCEPT !.pc = nextPc, !.log = Append(@, call)]

\* the awaited call has returned
Returned(slot, call) == [slot EXCEPT !.okCalls = @ \cup {call}]

\* lines 15-28: a request arrives and is given to the first free invocation;
\* a method other than POST is answered 405, otherwise the form is handed to
\* formidable
Receive(h) ==
    /\ slots[h].pc \in {"idle", "done"}
    /\ \A g \in Handlers : g < h => slots[g].pc \notin {"idle", "done"}
    /\ served < MaxRequests
    /\ \E req \in UploadRequests :
          LET fresh == [IdleSlot EXCEPT !.req = req, !.num = served + 1]
          IN  slots' = [slots EXCEPT ![h] =
                  IF ~MethodAllowed(req.method)
                  THEN Respond(fresh, MethodNotAllowed)
                  ELSE Issue(fresh, "formParse", "parsing")]
    /\ served' = served + 1
    /\ UNCHANGED <<env, head, convVars, fileVars>>

\* lines 175-201 after a successful conversion: the synchronous head of
\* saveQuizToRepo up to the first remote call
StartSave(slot, q, t) ==
    IF ~RepoConfigured(env)
    THEN Respond([slot EXCEPT !.quizData = q, !.title = t], SaveErrorResponse(q))
    ELSE Issue([slot EXCEPT !.quizData = q, !.title = t,
                            !.fname = DeriveFilename(t)],
               "getRef", "getRef")

\* lines 28-58: form.parse has settled; the file is read and converted and,
\* with a token, saveQuizToRepo is entered.  The requests of one behaviour
\* are all served on day 0 of the clock.
FormParsed(h) ==
    LET slot == slots[h]
        req == slot.req
        read == [slot EXCEPT !.log = Append(@, "readFile")]
        conv == [read EXCEPT !.log = Append(@, "convert")]
        t == QuizTitle(req.fieldTitle, req.originalFilename)
    IN  /\ slot.pc = "parsing"
        /\ LET q == ConvertExcelToQuiz(req.data, t, 0, 0)
           IN  slots' = [slots EXCEPT ![h] =
                   IF req.parse = "error"
                   THEN Respond(slot, ProcessingError("parse"))
                   ELSE IF ~req.file
                   THEN Respond(slot, NoFileUploaded)
                   ELSE IF ~req.readable
                   THEN Respond(read, ProcessingError("read"))
                   ELSE IF ~TokenConfigured(env)
                   THEN Respond([conv EXCEPT !.quizData = q, !.title = t],
                                UploadResponse(q, FALSE, Null))
                   ELSE StartSave(conv, q, t)]
        /\ UNCHANGED <<env, head, served, convVars, fileVars>>

\* a remote call of saveQuizToRepo has thrown: the inner catch of handler
SaveFailed(h) ==
    slots' = [slots EXCEPT ![h] = Respond(@, SaveErrorResponse(@.quizData))]

\* lines 198-207: git.getRef returns the commit of the branch
GetRefDone(h, ok) ==
    /\ slots[h].pc = "getRef"
    /\ IF ok
       THEN slots' = [slots EXCEPT ![h] =
                Issue([Returned(@, "getRef") EXCEPT !.currentCommitSha = head],
                      "getCommit", "getCommit")]
       ELSE SaveFailed(h)
    /\ UNCHANGED <<env, head, served, convVars, fileVars>>

\* lines 207-218: git.getCommit returns the tree of that commit
GetCommitDone(h, ok) ==
    /\ slots[h].pc = "getCommit"
    /\ IF ok
       THEN slots' = [slots EXCEPT ![h] =
                Issue([Returned(@, "getCommit") EXCEPT
                           !.currentTreeSha = slots[h].currentCommitSha.tree],
                      "getContent", "getContent")]
       ELSE SaveFailed(h)
    /\ UNCHANGED <<env, head, served, convVars, fileVars>>

\* lines 216-267: repos.getContent has settled; the index of the branch head
\* of the moment, or the empty index when the call failed or the file is not
\* there; the entry is put in and both createBlob calls are issued
GetContentDone(h, ok) ==
    /\ slots[h].pc = "getContent"
    /\ LET slot == slots[h]
           found == ok /\ IndexPath \in DOMAIN head.tree
           fetched == IF found THEN head.tree[IndexPath] ELSE EmptyIndex
           entry == NewEntry(slot.title, slot.fname, slot.quizData)
           after == [slot EXCEPT
                        !.okCalls = IF found THEN @ \cup {"getContent"} ELSE @,
                        !.fetched = fetched,
                        !.quizIndex = Upsert(fetched, entry),
                        !.pending = {"createBlob:quiz", "createBlob:index"}]
       IN  slots' = [slots EXCEPT ![h] =
               Issue(Issue(after, "createBlob:quiz", "blobs"),
                     "createBlob:index", "blobs")]
    /\ UNCHANGED <<env, head, served, convVars, fileVars>>

\* lines 254-270: one of the two git.createBlob calls has settled; when both
\* have returned, git.createTree is issued
BlobDone(h, blob, ok) ==
    /\ slots[h].pc = "blobs"
    /\ blob \in slots[h].pending
    /\ IF ok
       THEN LET left == slots[h].pending \ {blob}
                after == [Returned(slots[h], blob) EXCEPT !.pending = left]
            IN  slots' = [slots EXCEPT ![h] =
                    IF BlobsReady(left)
                    THEN Issue(after, "createTree", "createTree")
                    ELSE after]
       ELSE SaveFailed(h)
    /\ UNCHANGED <<env, head, served, convVars, fileVars>>

\* lines 270-291: git.createTree returns the new tree
CreateTreeDone(h, ok) ==
    /\ slots[h].pc = "createTree"
    /\ IF ok
       THEN slots' = [slots EXCEPT ![h] =
                Issue([Returned(@, "createTree") EXCEPT
                           !.newTree = CreateTree(BaseTree(slots[h], head),
                                                  QuizPath(slots[h].fname),
                                                  slots[h].quizData,
                                                  IndexPath,
                                                  slots[h].quizIndex)],
                      "createCommit", "createCommit")]
       ELSE SaveFailed(h)
    /\ UNCHANGED <<env, head, served, convVars, fileVars>>

\* lines 291-300: git.createCommit returns the new commit
CreateCommitDone(h, ok) ==
    /\ slots[h].pc = "createCommit"
    /\ LET commit == CreateCommit(slots[h].newTree, slots[h].currentCommitSha,
                                  slots[h].title, slots[h].num)
       IN  IF ok
           THEN /\ slots' = [slots EXCEPT ![h] =
                       Issue([Returned(@, "createCommit") EXCEPT !.newCommit = commit],
                             "updateRef", "updateRef")]
                /\ head' = RefAfterCreateCommit(head, commit)
           ELSE SaveFailed(h) /\ head' = head
    /\ UNCHANGED <<env, served, convVars, fileVars>>

\* lines 300-311 and 59-76: git.updateRef has settled.  The ref is set
\* whatever it points to; when the call throws, the store may or may not
\* have applied the update
UpdateRefDone(h, ok, applied) ==
    /\ slots[h].pc = "updateRef"
    /\ ok => applied
    /\ head' = IF applied THEN slots[h].newCommit ELSE head
    /\ IF ok
       THEN slots' = [slots EXCEPT ![h] =
                Respond(Returned(@, "updateRef"),
                        UploadResponse(@.quizData, TRUE, QuizPath(@.fname)))]
       ELSE SaveFailed(h)
    /\ UNCHANGED <<env, served, convVars, fileVars>>

-----------------------------------------------------------------------------
(* Specifications *)

UploadIdle ==
    /\ env = [token |-> FALSE, owner |-> FALSE, repo |-> FALSE]
    /\ head = InitialCommit(<<>>)
    /\ slots = [h \in Handlers |-> IdleSlot]
    /\ served = 0

ConvIdle ==
    /\ data = <<>>
    /\ title = <<>>
    /\ pc = "idle"
    /\ startIndex = 0
    /\ i = 0
    /\ questions = <<>>
    /\ sourceRows = <<>>
    /\ quiz = NoQuiz

FileIdle ==
    /\ quizTitle = <<>>
    /\ filename = <<>>
    /\ fpc = "idle"

\* convertExcelToQuiz(data, title) is entered
Init ==
    /\ data \in Matrices
    /\ title \in Titles
    /\ pc = "header"
    /\ startIndex = 0
    /\ i = 0
    /\ questions = <<>>
    /\ sourceRows = <<>>
    /\ quiz = NoQuiz
    /\ FileIdle
    /\ UploadIdle

Next == DetectHeader \/ ConvertRow \/ BuildQuiz

Spec == Init /\ [][Next]_vars

\* the filename derivation of saveQuizToRepo is entered with a title
InitFilename ==
    /\ quizTitle \in FileTitles
    /\ filename = <<>>
    /\ fpc = "title"
    /\ ConvIdle
    /\ UploadIdle

NextFilename == Derive \/ PublishAgain \/ PublishVariant

SpecFilename == InitFilename /\ [][NextFilename]_vars

\* the handler is deployed with an environment and a branch
InitUpload ==
    /\ env \in [token : BOOLEAN, owner : BOOLEAN, repo : BOOLEAN]
    /\ \E tree \in InitialTrees : head = InitialCommit(tree)
    /\ slots = [h \in Handlers |-> IdleSlot]
    /\ served = 0
    /\ ConvIdle
    /\ FileIdle

NextUpload ==
    \E h \in Handlers :
        \/ Receive(h)
        \/ FormParsed(h)
        \/ \E ok \in BOOLEAN :
              \/ GetRefDone(h, ok)
              \/ GetCommitDone(h, ok)
              \/ GetContentDone(h, ok)
              \/ \E blob \in {"createBlob:quiz", "createBlob:index"} :
                    BlobDone(h, blob, ok)
              \/ CreateTreeDone(h, ok)
              \/ CreateCommitDone(h, ok)
              \/ \E applied \in BOOLEAN : UpdateRefDone(h, ok, applied)

SpecUpload == InitUpload /\ [][NextUpload]_vars

-----------------------------------------------------------------------------
(* Properties of convertExcelToQuiz *)

\* the questions of the single player of the returned document
QuizQuestions == quiz.rounds[1].players[1].questions

\* a cell is empty when it is a hole or its string form trims to ""
EmptyAfterTrim(cell) ==
    cell.kind = "missing" \/ Trim(CellToString(cell)) = <<>>

\* row index j (0-based) has a non-empty column A and a non-empty column B
BothNonEmpty(j) ==
    /\ ~EmptyAfterTrim(CellAt(data[j + 1], 0))
    /\ ~EmptyAfterTrim(CellAt(data[j + 1], 1))

\* some cell of the row is a string that matches /^(question|answer|q|a)/i
HasHeaderString(row) ==
    \E k \in 1..Len(row) : row[k].kind = "text" /\ HeaderRegexTest(row[k].s)

\* the same, the pattern being applied to the trimmed string
HasTrimmedHeaderString(row) ==
    \E k \in 1..Len(row) : row[k].kind = "text" /\ HeaderRegexTest(Trim(row[k].s))

RECURSIVE Concat(_)
Concat(ss) == IF ss = <<>> THEN <<>> ELSE Head(ss) \o Concat(Tail(ss))

\* C1: the k-th emitted question has question_number k, during the loop and
\* in the returned document, whatever row it came from and however many
\* rows were skipped before it.
C1_DenseNumbering ==
    /\ \A k \in 1..Len(questions) : questions[k].question_number = k
    /\ pc = "done" =>
          \A k \in 1..Len(QuizQuestions) : QuizQuestions[k].question_number = k

\* a document with two questions, the second one not from the row after
\* the first: a row was skipped in between
C1_Witness ==
    /\ pc = "done"
    /\ Len(QuizQuestions) >= 2
    /\ sourceRows[2] > sourceRows[1] + 1

\* C2: every emitted question has a question_text and an answer that are
\* non-empty after trimming, and a row whose column A or column B is absent
\* or empty after stringify-and-trim contributes no question.
C2_NoPartialQuestion ==
    /\ \A k \in 1..Len(questions) :
          /\ Trim(questions[k].question_text) # <<>>
          /\ Trim(questions[k].answer) # <<>>
    /\ \A j \in 0..(Len(data) - 1) :
          ~BothNonEmpty(j) => j \notin Range(sourceRows)

\* the loop has passed a row with exactly one of the two columns empty and
\* has emitted a question from another row
C2_Witness ==
    /\ pc = "done"
    /\ Len(questions) >= 1
    /\ \E j \in startIndex..(Len(data) - 1) :
          EmptyAfterTrim(CellAt(data[j + 1], 0)) # EmptyAfterTrim(CellAt(data[j + 1], 1))

\* C3: the number of questions of the single player equals the number of
\* data rows (from startIndex on) whose column A and column B are both
\* non-empty after stringify-and-trim, the number 0 being non-empty ("0").
C3_CountEqualsValidRows ==
    pc = "done" =>
        Len(QuizQuestions) =
            Cardinality({j \in startIndex..(Len(data) - 1) : BothNonEmpty(j)})

\* C4: when no cell of row 0 is a string matching the header pattern (the
\* pattern being applied to the trimmed cell, as the code applies it), data
\* starts at row 0 and row 0 yields a question whenever its columns A and B
\* are both non-empty.
C4_NoHeaderStartsAtRowZero ==
    (pc \in {"loop", "done"} /\ Len(data) > 0 /\ ~HasTrimmedHeaderString(data[1])) =>
        /\ startIndex = 0
        /\ (i >= 1 /\ BothNonEmpty(0)) => 0 \in Range(sourceRows)

\* C5: a string cell of row 0 that starts with question, answer, q or a
\* (any case) makes row 0 a header: data starts at row 1 and row 0 yields no
\* question.  No other row is dropped as a header: every row from index 1
\* on is consumed by the loop, and yields a question unless one of the two
\* row filters skips it.
C5_HeaderRowZeroOnly ==
    pc \in {"loop", "done"} =>
        /\ startIndex \in {0, 1}
        /\ (Len(data) > 0 /\ HasHeaderString(data[1])) =>
              startIndex = 1 /\ 0 \notin Range(sourceRows)
        /\ pc = "done" => i = Len(data)
        /\ \A j \in 1..(i - 1) :
              j \in Range(sourceRows) \/ RowSkipped(data[j + 1])

\* row 0 holds valid data but is dropped as a header, and row 1, which
\* reads like a header, yields the first question
C5_Witness ==
    /\ pc = "done"
    /\ Len(data) >= 2
    /\ HasHeaderString(data[1])
    /\ BothNonEmpty(0)
    /\ HasHeaderString(data[2])
    /\ Len(sourceRows) >= 1
    /\ sourceRows[1] = 1

C7_AcceptFromColumnC ==
    \A k \in 1..Len(questions) :
        LET colC == CellAt(data[sourceRows[k] + 1], 2)
            alts == Alternatives(CellToString(colC))
        IN  colC.kind # "missing" =>
                IF alts # <<>>
                THEN "accept" \in DOMAIN questions[k] /\ questions[k].accept = alts
                ELSE "accept" \notin DOMAIN questions[k]

\* C8: the returned document has exactly one round (round_number 1,
\* round_name the title) with exactly one player (player_number 1),
\* metadata.title the title, metadata.rounds 1 and metadata.source equal to
\* "excel_upload_" followed by metadata.date.
C8_DocumentShape ==
    pc = "done" =>
        /\ Len(quiz.rounds) = 1
        /\ quiz.rounds[1].round_number = 1
        /\ quiz.rounds[1].round_name = title
        /\ Len(quiz.rounds[1].players) = 1
        /\ quiz.rounds[1].players[1].player_number = 1
        /\ quiz.metadata.title = title
        /\ quiz.metadata.rounds = 1
        /\ quiz.metadata.source = SourceTag(quiz.metadata.date)

\* C9 as stated: the example rows with title "Demo" yield the two questions
\* Q1/A1 (no accept) and Q2/A2 with accept ["x", "y"], numbered 1 and 2.
C9_ExampleTwoQuestions ==
    (pc = "done" /\ data = ExampleRows /\ title = sDemo) =>
        QuizQuestions =
            << [question_number |-> 1, question_text |-> sQ1, answer |-> sA1],
               [question_number |-> 2, question_text |-> sQ2, answer |-> sA2,
                accept |-> << <<"x">>, <<"y">> >>] >>

\* C9 amended: row 0 ["Q1", "A1"] starts with q and is dropped as a header,
\* so the example yields exactly one question: number 1, Q2/A2 with accept
\* ["x", "y"].
C9_ExampleOneQuestion ==
    (pc = "done" /\ data = ExampleRows /\ title = sDemo) =>
        /\ startIndex = 1
        /\ QuizQuestions =
              << [question_number |-> 1, question_text |-> sQ2, answer |-> sA2,
                  accept |-> << <<"x">>, <<"y">> >>] >>

\* the example input has been converted
C9_Witness ==
    /\ pc = "done"
    /\ data = ExampleRows
    /\ title = sDemo
    /\ quiz.metadata.title = sDemo

-----------------------------------------------------------------------------
(* Properties of the filename derivation *)

\* C10: a derived filename contains only characters of [a-z0-9-] and
\* deriving again from it returns it unchanged.
C10_FilenameIdempotent ==
    fpc = "derived" =>
        /\ \A k \in 1..Len(filename) :
              IsLower(filename[k]) \/ IsDigit(filename[k]) \/ filename[k] = "-"
        /\ DeriveFilename(filename) = filename

\* a title with an upper-case letter, whitespace and a stripped character
\* has been derived to a different, non-empty filename
C10_Witness ==
    /\ fpc = "derived"
    /\ \E k \in 1..Len(quizTitle) : IsUpper(quizTitle[k])
    /\ \E k \in 1..Len(quizTitle) : IsWhiteSpace(quizTitle[k])
    /\ \E k \in 1..Len(quizTitle) : ~IsFilenameChar(quizTitle[k])
    /\ filename # <<>>
    /\ filename # quizTitle

\* C11 as stated: titles that differ only by case or by stripped characters
\* derive the same filename, and "Café Quiz!" and "Cafe Quiz" both derive
\* to "cafe-quiz".
C11_CafeBothCafeQuiz ==
    /\ [][(fpc = "variant" /\ fpc' = "derived") => filename' = filename]_vars
    /\ [](fpc = "derived" /\ quizTitle \in {sCafeAccent, sCafePlain} =>
             filename = <<"c","a","f","e","-","q","u","i","z">>)

\* C11 amended: titles that differ only by case or by stripped characters
\* derive the same filename; "Café Quiz!" derives to "caf-quiz" (the é is
\* stripped, not replaced by e) and "Cafe Quiz" derives to "cafe-quiz".
C11_VariantsCollide ==
    /\ [][(fpc = "variant" /\ fpc' = "derived") => filename' = filename]_vars
    /\ [](fpc = "derived" /\ quizTitle = sCafeAccent =>
             filename = <<"c","a","f","-","q","u","i","z">>)
    /\ [](fpc = "derived" /\ quizTitle = sCafePlain =>
             filename = <<"c","a","f","e","-","q","u","i","z">>)

\* "caf quiz!", reached from "Café Quiz!" by variation only, has been
\* derived to the filename of "Café Quiz!"
C11_Witness ==
    /\ fpc = "derived"
    /\ quizTitle = <<"c","a","f"," ","q","u","i","z","!">>
    /\ filename = <<"c","a","f","-","q","u","i","z">>

-----------------------------------------------------------------------------
(* Properties of handler and saveQuizToRepo *)

\* the invocation has put its entry into the index it fetched
HasIndex(h) == "createBlob:quiz" \in Range(slots[h].log)

\* the invocation has answered 200 with saved: true
Saved(h) ==
    /\ slots[h].pc = "done"
    /\ Len(slots[h].responses) = 1
    /\ slots[h].responses[1].status = 200
    /\ slots[h].responses[1].body.saved

\* the calls of the log that go to the remote store
RemoteCalls(h) ==
    SelectSeq(slots[h].log,
              LAMBDA c : c \notin {"formParse", "readFile", "convert"})

\* C12: the upsert is keyed by file.  When the fetched index has an entry
\* with the file of the quiz, the new index has the same length and the new
\* entry at that position; otherwise it is the fetched index with the new
\* entry appended.  Every other entry keeps its place.  The index of the
\* branch never lists a file twice.
C12_UpsertByFile ==
    /\ \A h \in Handlers :
          HasIndex(h) =>
              LET old == slots[h].fetched.quizzes
                  new == slots[h].quizIndex.quizzes
                  file == QuizFile(slots[h].fname)
                  at == {k \in 1..Len(old) : old[k].file = file}
              IN  IF at # {}
                  THEN /\ Len(new) = Len(old)
                       /\ \E k \in at :
                             /\ new[k].file = file
                             /\ new[k].name = slots[h].title
                             /\ \A j \in 1..Len(old) : j # k => new[j] = old[j]
                  ELSE /\ Len(new) = Len(old) + 1
                       /\ new[Len(new)].file = file
                       /\ new[Len(new)].name = slots[h].title
                       /\ \A j \in 1..Len(old) : new[j] = old[j]
    /\ IndexPath \in DOMAIN head.tree =>
          LET list == head.tree[IndexPath].quizzes
          IN  \A j, k \in 1..Len(list) : list[j].file = list[k].file => j = k

\* the second of two publishes in sequence has replaced, at position 1 of
\* 2, the entry that the first one had written, and the branch shows it
C12_Witness ==
    \E h \in Handlers :
        /\ Saved(h)
        /\ slots[h].num = 2
        /\ Len(slots[h].fetched.quizzes) = 2
        /\ slots[h].fetched.quizzes[1].file = QuizFile(slots[h].fname)
        /\ slots[h].fetched.quizzes[1].name \in {sDemo, sDemoBang}
        /\ slots[h].fetched.quizzes[1].name # slots[h].title
        /\ head.tree[IndexPath] = slots[h].quizIndex
        /\ Len(slots[h].quizIndex.quizzes) = 2

\* the remote calls of one publish, in the order they are issued
CallOrder ==
    <<"getRef", "getCommit", "getContent", "createBlob:quiz",
      "createBlob:index", "createTree", "createCommit", "updateRef">>

\* C13: the remote calls of a publish are issued in the fixed order, each
\* one once.  A call is issued only after the call before it has returned
\* (the blob creations after the index step has produced an index, the tree
\* creation after both blob creations, which return in either order), and a
\* publish that reports saved has issued all of them.
C13_CallOrder ==
    \A h \in Handlers :
        LET calls == RemoteCalls(h)
            ok == slots[h].okCalls
        IN  /\ Len(calls) <= Len(CallOrder)
            /\ calls = SubSeq(CallOrder, 1, Len(calls))
            /\ "getCommit" \in Range(calls) => "getRef" \in ok
            /\ "getContent" \in Range(calls) => "getCommit" \in ok
            /\ "createBlob:quiz" \in Range(calls) =>
                  "createBlob:index" \in Range(calls) /\ slots[h].quizIndex # Null
            /\ "createTree" \in Range(calls) =>
                  {"createBlob:quiz", "createBlob:index"} \subseteq ok
            /\ "createCommit" \in Range(calls) => "createTree" \in ok
            /\ "updateRef" \in Range(calls) => "createCommit" \in ok
            /\ ok \subseteq Range(calls)
            /\ Saved(h) => calls = CallOrder /\ "updateRef" \in ok

\* one publish has gone through all eight calls while in another the index
\* blob has been created before the quiz blob
C13_Witness ==
    \E g, h \in Handlers :
        /\ Saved(g)
        /\ RemoteCalls(g) = CallOrder
        /\ slots[h].pc = "blobs"
        /\ "createBlob:index" \in slots[h].okCalls
        /\ "createBlob:quiz" \notin slots[h].okCalls

\* C14: only the ref update of a publish moves the branch head, and it moves
\* it to the commit of that publish; while the one publish of a behaviour
\* has not reached the end of its ref update, the head is the commit the
\* branch started with.
C14_OnlyUpdateRefMovesHead ==
    /\ [][head' # head =>
             \E h \in Handlers :
                 /\ slots[h].pc = "updateRef"
                 /\ slots'[h].pc = "done"
                 /\ head' = slots[h].newCommit]_vars
    /\ [](\A h \in Handlers :
             (served = 1 /\ slots[h].num = 1 /\
              ~(slots[h].pc = "done" /\ "updateRef" \in Range(slots[h].log)))
             => head.id = 0)

\* a publish has created its blobs, tree and commit and has then failed in
\* the ref update: the head is still the initial commit
C14_Witness ==
    \E h \in Handlers :
        /\ slots[h].pc = "done"
        /\ ~Saved(h)
        /\ "createCommit" \in slots[h].okCalls
        /\ "updateRef" \in Range(slots[h].log)
        /\ slots[h].newCommit.id = 1
        /\ head.id = 0

\* two publishes of different filenames that resolved the same base commit
\* have both reported saved: true
BothSavedOnSameBase(g, h) ==
    /\ g # h
    /\ Saved(g)
    /\ Saved(h)
    /\ slots[g].fname # slots[h].fname
    /\ slots[g].currentCommitSha = slots[h].currentCommitSha

\* the tree holds the quiz document of publish h at its path
TreeHasQuizOf(tree, h) ==
    /\ QuizPath(slots[h].fname) \in DOMAIN tree
    /\ tree[QuizPath(slots[h].fname)] = slots[h].quizData

\* the index lists the entry written by publish h
IndexHasEntryOf(index, h) ==
    \E k \in 1..Len(index.quizzes) :
        /\ index.quizzes[k].file = QuizFile(slots[h].fname)
        /\ index.quizzes[k].name = slots[h].title

PublisherCalls ==
    {"getRef", "getCommit", "createBlob:quiz", "createBlob:index",
     "createTree", "createCommit", "updateRef"}

\* the invocation has ended after convertExcelToQuiz returned
Converted(h) ==
    /\ slots[h].pc = "done"
    /\ "convert" \in Range(slots[h].log)

\* the invocation has ended with exactly this one response
Answer(h) == slots[h].responses[1]

\* C16: a request whose conversion succeeded is answered 200 with success:
\* true and the converted quiz; saved is true exactly when every throwing
\* step of the publisher, the ref update included, has returned; otherwise
\* saved is false, quizPath is null and the message asks for a manual
\* download; quizPath is non-null exactly when saved is true.
C16_PublishFailuresIsolated ==
    \A h \in Handlers :
        Converted(h) =>
            /\ Len(slots[h].responses) = 1
            /\ Answer(h).status = 200
            /\ Answer(h).body.success
            /\ slots[h].quizData # Null
            /\ Answer(h).body.quiz = slots[h].quizData
            /\ Answer(h).body.saved <=> PublisherCalls \subseteq slots[h].okCalls
            /\ Answer(h).body.quizPath # Null <=> Answer(h).body.saved
            /\ Answer(h).body.saved =>
                  /\ Answer(h).body.quizPath = QuizPath(slots[h].fname)
                  /\ Answer(h).body.message = "Quiz saved to repository successfully"
            /\ ~Answer(h).body.saved =>
                  /\ Answer(h).body.quizPath = Null
                  /\ Answer(h).body.message =
                        "Quiz parsed successfully (download to save manually)"

\* createTree has thrown and the request is answered 200 with saved: false
C16_Witness ==
    \E h \in Handlers :
        /\ Converted(h)
        /\ "createTree" \in Range(slots[h].log)
        /\ "createTree" \notin slots[h].okCalls
        /\ Answer(h).status = 200
        /\ ~Answer(h).body.saved
        /\ Answer(h).body.quizPath = Null

\* C17: with the token set and the owner or the repository name missing,
\* no invocation issues a remote call, and a converted request is answered
\* with saved: false.
C17_ConfigErrorBeforeRemoteCalls ==
    (env.token /\ ~(env.owner /\ env.repo)) =>
        \A h \in Handlers :
            /\ RemoteCalls(h) = <<>>
            /\ slots[h].okCalls = {}
            /\ Converted(h) =>
                  /\ Answer(h).status = 200
                  /\ ~Answer(h).body.saved
                  /\ Answer(h).body.quizPath = Null

\* a converted request under a token and an owner without repository name
C17_Witness ==
    /\ env.token
    /\ env.owner
    /\ ~env.repo
    /\ \E h \in Handlers :
          /\ Converted(h)
          /\ Len(slots[h].quizData.rounds[1].players[1].questions) > 0
          /\ RemoteCalls(h) = <<>>
          /\ ~Answer(h).body.saved

\* C18: without the token saveQuizToRepo is never entered: no filename is
\* derived, no remote call is issued, and a converted request is answered
\* 200 with saved: false and quizPath: null, whatever owner and repository
\* are.
C18_ConverterOnly ==
    ~env.token =>
        \A h \in Handlers :
            /\ RemoteCalls(h) = <<>>
            /\ slots[h].fname = Null
            /\ Converted(h) =>
                  /\ Answer(h).status = 200
                  /\ Answer(h).body.success
                  /\ Answer(h).body.quiz = slots[h].quizData
                  /\ ~Answer(h).body.saved
                  /\ Answer(h).body.quizPath = Null

\* a converted request without token in a deployment that names owner and
\* repository
C18_Witness ==
    /\ ~env.token
    /\ env.owner
    /\ env.repo
    /\ \E h \in Handlers :
          /\ Converted(h)
          /\ Len(slots[h].quizData.rounds[1].players[1].questions) > 0
          /\ Answer(h).status = 200
          /\ ~Answer(h).body.saved

\* the uploaded file of the request cannot be read as a workbook
Unreadable(h) ==
    /\ slots[h].req # Null
    /\ MethodAllowed(slots[h].req.method)
    /\ slots[h].req.parse = "ok"
    /\ slots[h].req.file
    /\ ~slots[h].req.readable

\* C19: a request whose file cannot be read is answered once, with status
\* 500 and a body of exactly error and message; it is never converted, has no
\* quiz document and issues no remote call.
C19_ReadErrorIs500 ==
    \A h \in Handlers :
        Unreadable(h) =>
            /\ "convert" \notin Range(slots[h].log)
            /\ slots[h].quizData = Null
            /\ RemoteCalls(h) = <<>>
            /\ slots[h].pc = "done" =>
                  /\ Len(slots[h].responses) = 1
                  /\ Answer(h).status = 500
                  /\ DOMAIN Answer(h).body = {"error", "message"}

\* XLSX.readFile has thrown under a fully configured publisher
C19_Witness ==
    /\ env.token
    /\ env.owner
    /\ env.repo
    /\ \E h \in Handlers :
          /\ Unreadable(h)
          /\ slots[h].pc = "done"
          /\ "readFile" \in Range(slots[h].log)
          /\ Answer(h).status = 500

\* C20: a request with another method than POST is answered 405 before
\* form.parse; a POST without file part is answered 400 before readFile,
\* convertExcelToQuiz and any remote call; an invocation has no response
\* while it runs and exactly one when it has ended.
C20_ValidationAborts ==
    \A h \in Handlers :
        /\ slots[h].pc = "done" <=> Len(slots[h].responses) = 1
        /\ slots[h].pc # "done" => slots[h].responses = <<>>
        /\ (slots[h].req # Null /\ slots[h].req.method # "POST") =>
              /\ slots[h].pc = "done"
              /\ Answer(h) = MethodNotAllowed
              /\ Answer(h).status = 405
              /\ slots[h].log = <<>>
        /\ (slots[h].req # Null /\ slots[h].req.method = "POST" /\
            slots[h].req.parse = "ok" /\ ~slots[h].req.file /\
            slots[h].pc = "done") =>
              /\ Answer(h).status = 400
              /\ slots[h].log = <<"formParse">>
              /\ slots[h].quizData = Null

\* a GET answered 405 and a POST without file answered 400, under a fully
\* configured publisher
C20_Witness ==
    /\ env.token
    /\ env.owner
    /\ env.repo
    /\ \E g, h \in Handlers :
          /\ slots[g].pc = "done"
          /\ slots[g].req.method = "GET"
          /\ Answer(g).status = 405
          /\ slots[h].pc = "done"
          /\ slots[h].req.method = "POST"
          /\ ~slots[h].req.file
          /\ Answer(h).status = 400

\* repos.getContent or the decoding of its result has thrown in this publish
FetchFailed(h) ==
    /\ "getContent" \in Range(slots[h].log)
    /\ slots[h].pc # "getContent"
    /\ "getContent" \notin slots[h].okCalls

\* C21: a failed fetch of the index does not end the publish: the step that
\* settles getContent always goes on to the two createBlob calls without a
\* response.  After a failed fetch the publish has started from the index
\* without entries, its index has exactly one entry, the one of the quiz it
\* publishes, and that index is the one in the tree of its commit.
C21_FetchFailureStartsEmpty ==
    /\ [][\A h \in Handlers :
             (slots[h].pc = "getContent" /\ slots'[h] # slots[h]) =>
                 /\ slots'[h].pc = "blobs"
                 /\ slots'[h].responses = <<>>
                 /\ slots'[h].pending = {"createBlob:quiz", "createBlob:index"}]_vars
    /\ [](\A h \in Handlers :
             FetchFailed(h) =>
                 /\ slots[h].fetched = [quizzes |-> <<>>]
                 /\ Len(slots[h].quizIndex.quizzes) = 1
                 /\ slots[h].quizIndex.quizzes[1].name = slots[h].title
                 /\ slots[h].quizIndex.quizzes[1].file = QuizFile(slots[h].fname)
                 /\ slots[h].newCommit # Null =>
                       slots[h].newCommit.tree[IndexPath] = slots[h].quizIndex
                 /\ (Saved(h) /\ head = slots[h].newCommit) =>
                       Len(head.tree[IndexPath].quizzes) = 1)

\* the fetch failed on a branch whose index listed two quizzes; the publish
\* is saved and the index of the branch lists one
C21_Witness ==
    \E h \in Handlers :
        /\ FetchFailed(h)
        /\ Saved(h)
        /\ IndexPath \in DOMAIN slots[h].currentCommitSha.tree
        /\ Len(slots[h].currentCommitSha.tree[IndexPath].quizzes) = 2
        /\ head = slots[h].newCommit
        /\ Len(head.tree[IndexPath].quizzes) = 1

\* C22: getRef hands the publish the commit of the branch of that moment.
\* The commit a publish creates has that commit as its only parent, and its
\* tree has the paths of that commit's tree and the two paths of the
\* publish: the quiz path holds the quiz document, the index path the new
\* index, and every other path holds what the base tree holds.
C22_CommitOnBase ==
    /\ [][\A h \in Handlers :
             (slots[h].pc = "getRef" /\ slots'[h].pc = "getCommit") =>
                 slots'[h].currentCommitSha = head]_vars
    /\ [](\A h \in Handlers :
             slots[h].newCommit # Null =>
                 LET base == slots[h].currentCommitSha
                     tree == slots[h].newCommit.tree
                     quizPath == QuizPath(slots[h].fname)
                 IN  /\ slots[h].newCommit.parents = <<base>>
                     /\ quizPath # IndexPath
                     /\ DOMAIN tree = DOMAIN base.tree \cup {quizPath, IndexPath}
                     /\ tree[quizPath] = slots[h].quizData
                     /\ tree[IndexPath] = slots[h].quizIndex
                     /\ \A p \in DOMAIN base.tree \ {quizPath, IndexPath} :
                           tree[p] = base.tree[p])

\* a commit on a base tree with another quiz file, where the quiz path of
\* the publish is replaced
C22_Witness ==
    \E h \in Handlers :
        /\ slots[h].newCommit # Null
        /\ slots[h].fname # sOther
        /\ QuizPath(sOther) \in DOMAIN slots[h].currentCommitSha.tree
        /\ QuizPath(slots[h].fname) \in DOMAIN slots[h].currentCommitSha.tree
        /\ slots[h].currentCommitSha.tree[QuizPath(slots[h].fname)] # slots[h].quizData
        /\ slots[h].newCommit.tree[QuizPath(sOther)] = OldQuiz

\* the questions of a document, one triple for each question of each player
\* of each round
QuestionSlots(q) ==
    UNION { UNION { { <<r, p, k>> :
                        k \in 1..Len(q.rounds[r].players[p].questions) } :
                    p \in 1..Len(q.rounds[r].players) } :
            r \in 1..Len(q.rounds) }

\* C23: the index of a publish has one entry with the file of its quiz; the
\* entry has the title as name, "/data/quizzes/<derived filename>.json" as
\* file and "1 round, N questions" as description, N being the number of
\* questions over all rounds and players of the document, which for the
\* document of the converter is the length of its one question list.
C23_IndexEntry ==
    \A h \in Handlers :
        HasIndex(h) =>
            LET q == slots[h].quizData
                file == <<"/data/quizzes/", DeriveFilename(slots[h].title), ".json">>
                at == {k \in 1..Len(slots[h].quizIndex.quizzes) :
                          slots[h].quizIndex.quizzes[k].file = file}
            IN  /\ Cardinality(at) = 1
                /\ Len(q.rounds) = 1
                /\ Len(q.rounds[1].players) = 1
                /\ Cardinality(QuestionSlots(q)) = Len(q.rounds[1].players[1].questions)
                /\ \A k \in at :
                      slots[h].quizIndex.quizzes[k] =
                          [name |-> slots[h].title,
                           file |-> file,
                           description |->
                               <<"1 round, ", Cardinality(QuestionSlots(q)),
                                 " questions">>]

\* the entry of a quiz with a question, whose filename differs from its title
C23_Witness ==
    \E h \in Handlers :
        /\ HasIndex(h)
        /\ slots[h].fname # slots[h].title
        /\ Len(slots[h].quizData.rounds[1].players[1].questions) >= 1
        /\ \E k \in 1..Len(slots[h].quizIndex.quizzes) :
              /\ slots[h].quizIndex.quizzes[k].name = slots[h].title
              /\ slots[h].quizIndex.quizzes[k].description[2] >= 1

\* the path in the tree of a file listed in the index: the served root is
\* the directory public
ListedPath(file) == <<"public/data/quizzes/", file[2], file[3]>>

\* the index of the tree lists only quiz files of the tree
IndexConsistent(tree) ==
    IndexPath \in DOMAIN tree =>
        \A k \in 1..Len(tree[IndexPath].quizzes) :
            ListedPath(tree[IndexPath].quizzes[k].file) \in DOMAIN tree

\* C24: on a branch that starts with an index listing only files of its
\* tree, every file listed in the index of the branch head is in the tree of
\* the branch head, whatever publishes have run.
C24_IndexTreeConsistent == IndexConsistent(head.tree)

====
